---- MODULE Spec2Model ----
(***************************************************************************)
(* Front-office planning of src/planning.py: Employee, the requirements    *)
(* engine, the feasibility checker, the assignment solver, the validator   *)
(* of analyser_planning and the caller (main) that chains them.            *)
(*                                                                         *)
(* The week is extracted one day at a time, as _extraire_planning does:    *)
(* the state holds the planning row of the day just extracted and, per     *)
(* prenom, the number of shifts assigned so far (whole week and the two    *)
(* 6-day windows).                                                         *)
(***************************************************************************)
EXTENDS Integers, Sequences, FiniteSets, TLC

VARIABLES
    employees,        \* self.employees: sequence of Employee records
    checkins,         \* st.session_state.checkins: jour -> count
    checkouts,        \* st.session_state.checkouts: jour -> count
    session_besoins,  \* st.session_state.besoins (<<>> until computed)
    session_faisabilite, \* st.session_state['faisabilite'] (Absent: no handler writes it)
    faisabilite,      \* value returned by the last verifier_faisabilite_planning (Absent if never called)
    pc,               \* position of the caller: "idle", "construit", "extraire", "rendu"
    statut,           \* prob.status after prob.solve()
    jour_idx,         \* number of days already extracted by _extraire_planning
    planning_jour,    \* planning[jour] of the last extracted day: shift -> sequence of employee dicts
    modele,           \* prob after _ajouter_contraintes: per day, the shift teams the constraints admit
    charge,           \* prenom -> [total, f1, f2]: shifts assigned so far (week, Lundi..Samedi, Mardi..Dimanche)
    affectes,         \* employee index -> [total, f1, f2]: appearances in the rows extracted so far
    avertissement,    \* st.warning shown by generer_planning_optimise ("aucun" if none)
    message,          \* what main shows after the button: "aucun", "succes", "erreur"
    planning,         \* a whole week handed to analyser_planning: day index -> shift -> team (<<>> if none)
    analyse,          \* value returned by the last analyser_planning (Absent if never called)
    analyse_avant     \* value returned by the call of analyser_planning before the last (Absent if none)

vars == <<planning, analyse, analyse_avant, employees, checkins, checkouts, session_besoins, session_faisabilite, faisabilite, pc, statut,
          jour_idx, planning_jour, modele, charge, affectes, avertissement, message>>

-----------------------------------------------------------------------------
(* HotelPlanningSystem.__init__ *)

jours_semaine == <<"Lundi", "Mardi", "Mercredi", "Jeudi", "Vendredi", "Samedi", "Dimanche">>

Shifts == <<"matin", "apres_midi", "nuit">>

clients_per_receptionist == 50

max_receptionists_per_shift == 4

nb_night_receptionists_required == 2

\* Mutant: the weekend is taken to be Vendredi and Samedi
WeekendDecale == {"Vendredi", "Samedi"}

Weekend == {"Samedi", "Dimanche"}

Min(a, b) == IF a <= b THEN a ELSE b

Max(a, b) == IF a >= b THEN a ELSE b

\* int(np.ceil(n / d)) for d > 0 (\div rounds down, for negative n too)
Ceil(n, d) == (n + d - 1) \div d

-----------------------------------------------------------------------------
(* Employee *)

\* Mutant: __post_init__ keeps the value passed to the constructor
PostInitSansEffet(type_contrat, jours_passe) == jours_passe

\* __post_init__: jours_semaine is overwritten from type_contrat; any other
\* contract keeps the value passed to the constructor.
PostInit(type_contrat, jours_passe) ==
    CASE type_contrat = "temps_plein" -> 5
      [] type_contrat = "mi_temps_4j" -> 4
      [] type_contrat = "mi_temps_3j" -> 3
      [] type_contrat = "nuit" -> 5
      [] OTHER -> jours_passe

Employee(prenom, nom, type_contrat, jours_passe, role, disponible, jours_absence) ==
    [prenom |-> prenom, nom |-> nom, type_contrat |-> type_contrat,
     jours_semaine |-> PostInit(type_contrat, jours_passe), role |-> role,
     disponible |-> disponible, jours_absence |-> jours_absence]

\* Mutant: the disponible flag is not read
ToujoursDisponible(e) == TRUE

\* Mutant: only the employees with absence days count as disponible
DisponibleAvecAbsence(e) == e.disponible /\ e.jours_absence > 0

EstDisponible(e) == e.disponible

\* Mutant: the absence days are not subtracted
jours_travail_max_sans_absence(e) ==
    IF ~EstDisponible(e) THEN 0 ELSE e.jours_semaine

jours_travail_max_semaine(e) ==
    IF ~EstDisponible(e) THEN 0
    ELSE IF e.jours_absence >= 7 THEN 0
    ELSE Max(0, e.jours_semaine - e.jours_absence)

-----------------------------------------------------------------------------
(* Roster pools: the list comprehensions of verifier_faisabilite_planning  *)
(* and _ajouter_contraintes, as sets of indices into employees.            *)

Indices == 1..Len(employees)

Prenoms == {employees[i].prenom : i \in Indices}

get_employees_disponibles == {i \in Indices : EstDisponible(employees[i])}

superviseurs == {i \in get_employees_disponibles : employees[i].role = "superviseur"}

receptionnistes_jour ==
    {i \in get_employees_disponibles :
        employees[i].role = "receptionniste" /\ employees[i].type_contrat # "nuit"}

receptionnistes_nuit ==
    {i \in get_employees_disponibles :
        employees[i].role = "receptionniste" /\ employees[i].type_contrat = "nuit"}

concierges == {i \in get_employees_disponibles : employees[i].role = "concierge"}

-----------------------------------------------------------------------------
(* calculer_besoins_personnel *)

\* dict.get(jour, 0)
Get(d, jour) == IF jour \in DOMAIN d THEN d[jour] ELSE 0

\* Mutant: the concierge slot is not reserved on weekdays
max_personnel_sans_concierge(jour) == max_receptionists_per_shift

max_personnel_disponible(jour) ==
    IF jour \notin Weekend THEN max_receptionists_per_shift - 1
    ELSE max_receptionists_per_shift

\* Mutant: the low-occupancy test is "<= 100"
besoin_total_seuil_inclus(raw, activite, jour) ==
    LET b1 == Max(1, Ceil(raw, clients_per_receptionist))
        b2 == Min(b1, max_personnel_disponible(jour))
    IN  IF activite <= 100 THEN Max(1, b2 - 1) ELSE b2

\* besoin_total_* of one shift: raw is the shift's own count, activite the day's total
besoin_total(raw, activite, jour) ==
    LET b1 == Max(1, Ceil(raw, clients_per_receptionist))
        b2 == Min(b1, max_personnel_disponible(jour))
    IN  IF activite < 100 THEN Max(1, b2 - 1) ELSE b2

\* Mutant: the night requirement is not capped by the available night receptionists
calculer_besoins_nuit_fixe(ci, co) ==
    [j \in 1..Len(jours_semaine) |->
        LET jour == jours_semaine[j]
            nb_checkins == Get(ci, jour)
            nb_checkouts == Get(co, jour)
            total_activite == nb_checkins + nb_checkouts
        IN  [matin |-> [total_personnel |-> besoin_total(nb_checkouts, total_activite, jour),
                        min_superviseurs |-> 1,
                        concierge |-> IF jour \notin Weekend THEN 1 ELSE 0],
             apres_midi |-> [total_personnel |-> besoin_total(nb_checkins, total_activite, jour),
                             min_superviseurs |-> 1,
                             concierge |-> 0],
             nuit |-> [receptionists |-> nb_night_receptionists_required,
                       superviseurs |-> 0,
                       concierge |-> 0]]]

calculer_besoins_personnel(ci, co) ==
    [j \in 1..Len(jours_semaine) |->
        LET jour == jours_semaine[j]
            nb_checkins == Get(ci, jour)
            nb_checkouts == Get(co, jour)
            total_activite == nb_checkins + nb_checkouts
        IN  [matin |-> [total_personnel |-> besoin_total(nb_checkouts, total_activite, jour),
                        min_superviseurs |-> 1,
                        concierge |-> IF jour \notin Weekend THEN 1 ELSE 0],
             apres_midi |-> [total_personnel |-> besoin_total(nb_checkins, total_activite, jour),
                             min_superviseurs |-> 1,
                             concierge |-> 0],
             nuit |-> [receptionists |-> Min(nb_night_receptionists_required,
                                             Cardinality(receptionnistes_nuit)),
                       superviseurs |-> 0,
                       concierge |-> 0]]]

-----------------------------------------------------------------------------
(* verifier_faisabilite_planning *)

\* Mutant: a single supervisor is reported as a problem
verifier_faisabilite_un_superviseur ==
    LET nsup == Cardinality(superviseurs)
        njour == Cardinality(receptionnistes_jour)
        nnuit == Cardinality(receptionnistes_nuit)
        nconc == Cardinality(concierges)
        problemes ==
            (IF nsup < 1 THEN <<"aucun_superviseur">>
             ELSE IF nsup < 2 THEN <<"un_seul_superviseur">> ELSE <<>>)
            \o (IF nnuit < 2
                THEN (IF nnuit = 0 THEN <<"aucun_receptionniste_nuit">>
                      ELSE <<"un_seul_receptionniste_nuit">>)
                ELSE <<>>)
            \o (IF nsup + njour < 3 THEN <<"personnel_jour_insuffisant">> ELSE <<>>)
        recommandations ==
            (IF nconc = 0 THEN <<"concierge_indisponible">> ELSE <<>>)
    IN  [faisable |-> Len(problemes) = 0,
         problemes |-> problemes,
         recommandations |-> recommandations,
         stats |-> [total_disponibles |-> Cardinality(get_employees_disponibles),
                    superviseurs |-> nsup,
                    receptionnistes_jour |-> njour,
                    receptionnistes_nuit |-> nnuit,
                    concierges |-> nconc]]

verifier_faisabilite_planning ==
    LET nsup == Cardinality(superviseurs)
        njour == Cardinality(receptionnistes_jour)
        nnuit == Cardinality(receptionnistes_nuit)
        nconc == Cardinality(concierges)
        problemes ==
            (IF nsup < 1 THEN <<"aucun_superviseur">> ELSE <<>>)
            \o (IF nnuit < 2
                THEN (IF nnuit = 0 THEN <<"aucun_receptionniste_nuit">>
                      ELSE <<"un_seul_receptionniste_nuit">>)
                ELSE <<>>)
            \o (IF nsup + njour < 3 THEN <<"personnel_jour_insuffisant">> ELSE <<>>)
        recommandations ==
            (IF nsup >= 1 /\ nsup < 2 THEN <<"un_seul_superviseur">> ELSE <<>>)
            \o (IF nconc = 0 THEN <<"concierge_indisponible">> ELSE <<>>)
    IN  [faisable |-> Len(problemes) = 0,
         problemes |-> problemes,
         recommandations |-> recommandations,
         stats |-> [total_disponibles |-> Cardinality(get_employees_disponibles),
                    superviseurs |-> nsup,
                    receptionnistes_jour |-> njour,
                    receptionnistes_nuit |-> nnuit,
                    concierges |-> nconc]]

-----------------------------------------------------------------------------
(* _ajouter_contraintes.  The decision variables are keyed by prenom       *)
(* (x[emp.prenom][jour][shift]); a team T is the set of prenoms whose      *)
(* variable is 1 on one (jour, shift), and a ligne maps each shift of one  *)
(* day to its team.                                                        *)

\* lpSum([x[e.prenom][jour][shift] for e in pool]) with T the variables set to 1
Compte(pool, T) == Cardinality({i \in pool : employees[i].prenom \in T})

\* lines 211-216: x == 0 for every employee who is not disponible
ContrainteIndisponibles(T) ==
    \A i \in Indices : ~EstDisponible(employees[i]) => employees[i].prenom \notin T

\* Mutant: "<= nb_requis" in place of "== nb_requis"
ContraintesNuitAuPlus(b, T) ==
    LET nb_requis == Min(b.nuit.receptionists, Cardinality(receptionnistes_nuit))
        autres == get_employees_disponibles \ receptionnistes_nuit
    IN  /\ nb_requis > 0 => Compte(receptionnistes_nuit, T) <= nb_requis
        /\ \A i \in autres : employees[i].prenom \notin T

\* lines 221-230: the night shift
ContraintesNuit(b, T) ==
    LET nb_requis == Min(b.nuit.receptionists, Cardinality(receptionnistes_nuit))
        autres == get_employees_disponibles \ receptionnistes_nuit
    IN  /\ nb_requis > 0 => Compte(receptionnistes_nuit, T) = nb_requis
        /\ \A i \in autres : employees[i].prenom \notin T

\* Mutant: no supervisor floor
SuperviseurFacultatif(T) == TRUE

\* lines 232-234: at least one supervisor when one is disponible
ContrainteSuperviseur(T) ==
    Cardinality(superviseurs) > 0 => Compte(superviseurs, T) >= 1

\* Mutant: no headcount floor
EffectifFacultatif(nb_besoin, T) == TRUE

\* lines 236-245: headcount of supervisors and day receptionists
ContrainteEffectif(nb_besoin, T) ==
    LET personnel_jour_disponible == superviseurs \cup receptionnistes_jour
        nb_possible == Min(nb_besoin, Cardinality(personnel_jour_disponible))
    IN  nb_possible > 0 =>
            Compte(receptionnistes_jour, T) + Compte(superviseurs, T) >= nb_possible

\* Mutant: "<= 1" in place of "== 1"
ConciergeAuPlusUn(jour, shift, T) ==
    IF jour \notin Weekend /\ shift = "matin" /\ Cardinality(concierges) > 0
    THEN Compte(concierges, T) <= 1
    ELSE \A c \in concierges : employees[c].prenom \notin T

\* lines 247-252: the concierge
ContrainteConcierge(jour, shift, T) ==
    IF jour \notin Weekend /\ shift = "matin" /\ Cardinality(concierges) > 0
    THEN Compte(concierges, T) = 1
    ELSE \A c \in concierges : employees[c].prenom \notin T

\* lines 254-257: at most 4 people on a day shift
ContrainteMaximum(T) ==
    LET tous_employes_jour == superviseurs \cup receptionnistes_jour \cup concierges
    IN  Cardinality(tous_employes_jour) > 0 =>
            Compte(tous_employes_jour, T) <= max_receptionists_per_shift

\* lines 280-287: a concierge works weekday mornings only
ContrainteRoleConcierge(jour, shift, T) ==
    \A c \in concierges :
        (shift = "nuit" \/ shift = "apres_midi" \/ jour \in Weekend)
            => employees[c].prenom \notin T

\* Every constraint that mentions the variables of one (jour, shift) only
ContraintesShift(jour, shift, b, T) ==
    /\ ContrainteIndisponibles(T)
    /\ IF shift = "nuit"
       THEN ContraintesNuit(b, T)
       ELSE /\ ContrainteSuperviseur(T)
            /\ ContrainteEffectif(b[shift].total_personnel, T)
            /\ ContrainteConcierge(jour, shift, T)
            /\ ContrainteMaximum(T)
    /\ ContrainteRoleConcierge(jour, shift, T)

\* lpSum([x[emp.prenom][jour][shift] for shift in shifts]) of one day
NbShifts(ligne, p) == Cardinality({k \in 1..Len(Shifts) : p \in ligne[Shifts[k]]})

\* The sums of lines 267-278 after day j is added: the whole week, the window
\* jours_semaine[0:6] and the window jours_semaine[1:7]
Avance(ch, ligne, j) ==
    [p \in DOMAIN ch |->
        LET k == NbShifts(ligne, p)
        IN  [total |-> ch[p].total + k,
             f1 |-> ch[p].f1 + (IF j <= 6 THEN k ELSE 0),
             f2 |-> ch[p].f2 + (IF j >= 2 THEN k ELSE 0)]]

\* Mutant: no "one shift per day" constraint
ContraintesEmployeSansExclusivite(ligne, ch) ==
    \A i \in get_employees_disponibles :
        LET p == employees[i].prenom
        IN  /\ ch[p].total <= jours_travail_max_semaine(employees[i])
            /\ ch[p].f1 <= 5
            /\ ch[p].f2 <= 5

\* Mutant: the weekly cap and the 6-day windows sit inside the block
\* "if emp.role == 'concierge'"
ContraintesEmployeConcierge(ligne, ch) ==
    \A i \in get_employees_disponibles :
        LET p == employees[i].prenom
        IN  /\ NbShifts(ligne, p) <= 1
            /\ employees[i].role = "concierge" =>
                    /\ ch[p].total <= jours_travail_max_semaine(employees[i])
                    /\ ch[p].f1 <= 5
                    /\ ch[p].f2 <= 5

\* lines 259-278: per available employee, one shift a day, the weekly cap
\* and at most 5 shifts in each 6-day window (ch: the sums including ligne)
ContraintesEmploye(ligne, ch) ==
    \A i \in get_employees_disponibles :
        LET p == employees[i].prenom
        IN  /\ NbShifts(ligne, p) <= 1
            /\ ch[p].total <= jours_travail_max_semaine(employees[i])
            /\ ch[p].f1 <= 5
            /\ ch[p].f2 <= 5

-----------------------------------------------------------------------------
(* prob.solve(): the objective (lines 184-190) is the number of            *)
(* assignments, so an optimal solution holds no assignment that could be   *)
(* dropped with every constraint still satisfied (dropping one can only    *)
(* break a constraint of its own shift: the per-employee ones are upper    *)
(* bounds).                                                                *)

\* Mutant: the objective leaves out the variables of the night receptionists
SansSuperfluHorsNuit(jour, shift, b, T) ==
    \A p \in T :
        \/ \E i \in receptionnistes_nuit : employees[i].prenom = p
        \/ ~ContraintesShift(jour, shift, b, T \ {p})

SansSuperflu(jour, shift, b, T) ==
    \A p \in T : ~ContraintesShift(jour, shift, b, T \ {p})

EquipesOptimales(jour, shift, b) ==
    {T \in SUBSET Prenoms : ContraintesShift(jour, shift, b, T) /\ SansSuperflu(jour, shift, b, T)}

\* The built problem: for each day, the lignes the shift constraints admit
Construire(besoins) ==
    [j \in 1..Len(jours_semaine) |->
        {[matin |-> M, apres_midi |-> A, nuit |-> N] :
            M \in EquipesOptimales(jours_semaine[j], "matin", besoins[j]),
            A \in EquipesOptimales(jours_semaine[j], "apres_midi", besoins[j]),
            N \in EquipesOptimales(jours_semaine[j], "nuit", besoins[j])}]

ChargeNulle == [p \in Prenoms |-> [total |-> 0, f1 |-> 0, f2 |-> 0]]

\* The sums that the assignments of days j..7 satisfying every constraint can
\* end with, from the sums R that days 1..j-1 can give
RECURSIVE Atteignables(_, _, _)
Atteignables(m, j, R) ==
    IF j > Len(jours_semaine) \/ R = {} THEN R
    ELSE Atteignables(m, j + 1,
            UNION {{Avance(ch, ligne, j) : ligne \in
                        {l \in m[j] : ContraintesEmploye(l, Avance(ch, l, j))}} : ch \in R})

\* Some assignment of the week satisfies every constraint
Realisable(m) == Atteignables(m, 1, {ChargeNulle}) # {}

\* LpStatus[prob.status]
Statut(m) == IF Realisable(m) THEN "Optimal" ELSE "Infeasible"

\* Values left in the variables by a solve that ended Infeasible: the solver
\* specifies none.  The model lets the variables of one prenom, taken among
\* the first MaxDevie employees of the roster, hold any values and leaves
\* the others at 0.
MaxDevie == 2

LignesDegradees(ch) ==
    {[s \in {"matin", "apres_midi", "nuit"} |-> IF s \in S THEN {p} ELSE {}] :
        p \in {q \in {employees[i].prenom : i \in 1..Min(MaxDevie, Len(employees))} :
                    \A r \in Prenoms \ {q} : ch[r].total = 0},
        S \in SUBSET {"matin", "apres_midi", "nuit"}}

-----------------------------------------------------------------------------
(* _extraire_planning *)

Fiche(e) == [prenom |-> e.prenom, nom |-> e.nom, role |-> e.role, type_contrat |-> e.type_contrat]

\* planning[jour][shift]: the employees, in roster order, whose variable is 1
ExtraireEquipe(T) ==
    LET F[i \in 0..Len(employees)] ==
            IF i = 0 THEN <<>>
            ELSE IF employees[i].prenom \in T THEN Append(F[i - 1], Fiche(employees[i]))
            ELSE F[i - 1]
    IN  F[Len(employees)]

ExtraireLigne(ligne) == [s \in {"matin", "apres_midi", "nuit"} |-> ExtraireEquipe(ligne[s])]

\* Employee i is listed in the team of a shift
Present(i, equipe) == \E k \in 1..Len(equipe) : equipe[k] = Fiche(employees[i])

\* Appearances of each employee in the extracted rows, with the row of day j added
Compter(aff, row, j) ==
    [i \in DOMAIN aff |->
        LET k == Cardinality({s \in {"matin", "apres_midi", "nuit"} : Present(i, row[s])})
        IN  [total |-> aff[i].total + k,
             f1 |-> aff[i].f1 + (IF j <= 6 THEN k ELSE 0),
             f2 |-> aff[i].f2 + (IF j >= 2 THEN k ELSE 0)]]

-----------------------------------------------------------------------------
(* _verifier_violations and analyser_planning.  pl is a whole week: day     *)
(* index -> shift -> team.  A violation is a record in place of the         *)
(* message string: its kind and the place the message names.               *)

\* A key that st.session_state does not hold, a call that was never made
Absent == [absent |-> TRUE]

\* len([e for e in equipe if e['role'] == role])
NbRole(equipe, role) == Cardinality({k \in 1..Len(equipe) : equipe[k].role = role})

Violation(kind, j, shift) == [kind |-> kind, jour |-> jours_semaine[j], shift |-> shift]

\* lines 378-404: one iteration of "for shift in ['matin', 'apres_midi']"
ViolationsShift(pl, j, shift) ==
    LET equipe == pl[j][shift]
        nb_superviseurs == NbRole(equipe, "superviseur")
        nb_concierges == NbRole(equipe, "concierge")
        total == Len(equipe)
    IN  (IF nb_superviseurs < 1 THEN <<Violation("superviseur", j, shift)>> ELSE <<>>)
        \o (IF jours_semaine[j] \notin Weekend
            THEN (IF shift = "matin" /\ nb_concierges # 1
                  THEN <<Violation("concierge_obligatoire", j, shift)>>
                  ELSE IF shift = "apres_midi" /\ nb_concierges > 0
                  THEN <<Violation("concierge_apres_midi", j, shift)>>
                  ELSE <<>>)
            ELSE (IF nb_concierges > 0
                  THEN <<Violation("concierge_weekend", j, shift)>>
                  ELSE <<>>))
        \o (IF total > max_receptionists_per_shift
            THEN <<Violation("maximum", j, shift)>> ELSE <<>>)
        \o (IF total < 1 THEN <<Violation("minimum", j, shift)>> ELSE <<>>)

\* lines 406-419: the night of one day
ViolationsNuit(pl, j) ==
    LET equipe_nuit == pl[j]["nuit"]
    IN  (IF NbRole(equipe_nuit, "receptionniste") # nb_night_receptionists_required
         THEN <<Violation("nuit_effectif", j, "nuit")>> ELSE <<>>)
        \o (IF NbRole(equipe_nuit, "superviseur") > 0
            THEN <<Violation("nuit_superviseur", j, "nuit")>> ELSE <<>>)
        \o (IF NbRole(equipe_nuit, "concierge") > 0
            THEN <<Violation("nuit_concierge", j, "nuit")>> ELSE <<>>)

\* any(e['prenom'] == emp.prenom for e in planning[jour][shift])
Travaille(pl, i, j, shift) ==
    \E k \in 1..Len(pl[j][shift]) : pl[j][shift][k].prenom = employees[i].prenom

\* jours_travailles of employee i (lines 423-433 and 319-331)
JoursTravailles(pl, i) ==
    Cardinality({j \in 1..Len(jours_semaine) :
        \E shift \in {"matin", "apres_midi", "nuit"} : Travaille(pl, i, j, shift)})

\* lines 421-438: the contract check of one employee
ViolationsEmploye(pl, i) ==
    IF JoursTravailles(pl, i) > employees[i].jours_semaine
    THEN <<[kind |-> "contrat", prenom |-> employees[i].prenom, nom |-> employees[i].nom]>>
    ELSE <<>>

\* Mutant: the list of violations is kept from one call to the next
verifier_violations_cumulees(pl) ==
    LET J[j \in 0..Len(jours_semaine)] ==
            IF j = 0 THEN (IF analyse = Absent THEN <<>> ELSE analyse.violations_contraintes)
            ELSE J[j - 1] \o ViolationsShift(pl, j, "matin")
                          \o ViolationsShift(pl, j, "apres_midi")
                          \o ViolationsNuit(pl, j)
        E[i \in 0..Len(employees)] ==
            IF i = 0 THEN <<>> ELSE E[i - 1] \o ViolationsEmploye(pl, i)
    IN  J[Len(jours_semaine)] \o E[Len(employees)]

\* _verifier_violations
verifier_violations(pl) ==
    LET J[j \in 0..Len(jours_semaine)] ==
            IF j = 0 THEN <<>>
            ELSE J[j - 1] \o ViolationsShift(pl, j, "matin")
                          \o ViolationsShift(pl, j, "apres_midi")
                          \o ViolationsNuit(pl, j)
        E[i \in 0..Len(employees)] ==
            IF i = 0 THEN <<>> ELSE E[i - 1] \o ViolationsEmploye(pl, i)
    IN  J[Len(jours_semaine)] \o E[Len(employees)]

\* heures of employee i: 8 per shift worked (lines 319-327)
Heures(pl, i) ==
    8 * Cardinality({<<j, shift>> \in (1..Len(jours_semaine)) \X {"matin", "apres_midi", "nuit"} :
                        Travaille(pl, i, j, shift)})

\* sum(len(planning[jour][shift]) ...) (line 364)
TotalShifts(pl) ==
    LET N[j \in 0..Len(jours_semaine)] ==
            IF j = 0 THEN 0
            ELSE N[j - 1] + Len(pl[j]["matin"]) + Len(pl[j]["apres_midi"]) + Len(pl[j]["nuit"])
    IN  N[Len(jours_semaine)]

\* f"{emp.prenom} {emp.nom}", the key of heures_par_employe
Cle(e) == <<e.prenom, e.nom>>

\* lines 344-358: analyse['couverture_par_shift'][f"{jour}_{shift}"]
Couverture(equipe) ==
    [total |-> Len(equipe),
     receptionnistes |-> NbRole(equipe, "receptionniste"),
     superviseurs |-> NbRole(equipe, "superviseur"),
     concierge |-> NbRole(equipe, "concierge"),
     equipe |-> [k \in 1..Len(equipe) |-> <<equipe[k].prenom, equipe[k].nom, equipe[k].role>>]]

\* heures_par_employe is a dict: of the employees with one key, the last of
\* the roster leaves its entry
analyser_planning(pl) ==
    LET dernier(c) == CHOOSE i \in Indices :
                          /\ Cle(employees[i]) = c
                          /\ \A k \in Indices : Cle(employees[k]) = c => k <= i
        heures_par_employe ==
            [c \in {Cle(employees[i]) : i \in Indices} |->
                LET i == dernier(c)
                IN  [heures |-> Heures(pl, i),
                     jours_travailles |-> JoursTravailles(pl, i),
                     jours_contractuels |-> employees[i].jours_semaine,
                     respect_contrat |-> JoursTravailles(pl, i) <= employees[i].jours_semaine,
                     role |-> employees[i].role,
                     type_contrat |-> employees[i].type_contrat]]
    IN  [heures_par_employe |-> heures_par_employe,
         couverture_par_shift |->
            [j \in 1..Len(jours_semaine) |->
                [shift \in {"matin", "apres_midi", "nuit"} |-> Couverture(pl[j][shift])]],
         violations_contraintes |-> verifier_violations(pl),
         statistiques_globales |->
            [total_shifts_semaine |-> TotalShifts(pl),
             total_heures_semaine |-> TotalShifts(pl) * 8,
             nombre_employes_actifs |->
                Cardinality({c \in DOMAIN heures_par_employe :
                                heures_par_employe[c].jours_travailles > 0})]]

-----------------------------------------------------------------------------
(* Rosters and forecasts the caller starts from *)

MaxAbsence == 1

Sup(prenom, absence) ==
    Employee(prenom, "Manager", "temps_plein", 5, "superviseur", TRUE, absence)

Nuit(prenom, absence) ==
    Employee(prenom, "Nuit", "nuit", 5, "receptionniste", TRUE, absence)

Jour(prenom, contrat) == Employee(prenom, "Jour", contrat, 5, "receptionniste", TRUE, 0)

Concierge(prenom, absence) ==
    Employee(prenom, "Clef", "temps_plein", 5, "concierge", TRUE, absence)

\* marked unavailable by a button that leaves jours_absence alone (main, line 1099)
SupIndisponible == Employee("Ugo", "Manager", "temps_plein", 5, "superviseur", FALSE, 0)

ConciergeIndisponible == Employee("Carl", "Clef", "temps_plein", 5, "concierge", FALSE, 7)

\* check-ins or check-outs: v on every weekday and w on Samedi and Dimanche
Prevision(v, w) ==
    [jour \in {jours_semaine[j] : j \in 1..Len(jours_semaine)} |->
        IF jour \in Weekend THEN w ELSE v]

\* <<roster, checkins, checkouts>>.  Where the solve ends Infeasible the first
\* MaxDevie people of the roster are those whose variables may hold anything.
Scenarios ==
    \* three supervisors (one absent a day), a day receptionist, a concierge, nobody at
    \* night
    {<<  <<SupIndisponible, Concierge("Colette", a), Sup("Sara", 0), Sup("Sam", 0),
           Sup("Sofia", 1), Jour("Rene", "mi_temps_3j")>>,
         Prevision(0, 0), Prevision(40, 20)  >> : a \in 0..MaxAbsence}
    \* three night receptionists (one absent a day) and two concierges
    \cup {<<  <<Nuit("Nina", 0), Nuit("Noe", 0), Nuit("Nour", 1), Concierge("Colette", 0),
                Concierge("Carl", 0), SupIndisponible>>,
              Prevision(50, 40), Prevision(50, 40)  >>}
    \* three day receptionists and no supervisor, a concierge, a second concierge absent
    \* the 5 days of the contract
    \cup {<<  <<Jour("Rene", "temps_plein"), Jour("Rose", "temps_plein"),
                Jour("Remi", "mi_temps_4j"), Concierge("Colette", 0), Concierge("Carl", 5)>>,
              Prevision(0, 0), Prevision(0, 0)  >>}
    \* three supervisors and two night receptionists only
    \cup {<<  <<Nuit("Nina", 0), Sup("Sara", 0), Sup("Sam", 0), Sup("Sofia", 0), Nuit("Noe", 0)>>,
              Prevision(0, 0), Prevision(0, 0)  >>}
    \* a single night receptionist
    \cup {<<  <<Nuit("Nina", 0), Sup("Sara", 0), Sup("Sam", 0), Jour("Rene", "temps_plein"),
                Jour("Rose", "mi_temps_4j")>>,
              Prevision(120, 300), Prevision(150, 300)  >>}
    \* fewer than 5 people disponibles
    \cup {<<  <<Sup("Sara", 0), Nuit("Nina", 0), Jour("Rene", "temps_plein"),
                Jour("Rose", "mi_temps_4j"), ConciergeIndisponible>>,
              Prevision(120, 300), Prevision(150, 300)  >>}

-----------------------------------------------------------------------------
(* The caller: tab "Planning" of main, and the solve it starts *)

LigneVide == [s \in {"matin", "apres_midi", "nuit"} |-> <<>>]

Init ==
    /\ \E sc \in Scenarios :
          /\ employees = sc[1]
          /\ checkins = sc[2]
          /\ checkouts = sc[3]
    /\ session_besoins = <<>>
    /\ session_faisabilite = Absent
    /\ faisabilite = Absent
    /\ pc = "idle"
    /\ statut = "Not Solved"
    /\ jour_idx = 0
    /\ planning_jour = LigneVide
    /\ modele = <<>>
    /\ charge = ChargeNulle
    /\ affectes = [i \in Indices |-> [total |-> 0, f1 |-> 0, f2 |-> 0]]
    /\ avertissement = "aucun"
    /\ message = "aucun"
    /\ planning = <<>>
    /\ analyse = Absent
    /\ analyse_avant = Absent

\* main, line 1497: the button "Calculer les Besoins en Personnel"
CalculerBesoins ==
    /\ pc = "idle"
    /\ session_besoins' = calculer_besoins_personnel(checkins, checkouts)
    /\ UNCHANGED <<planning, analyse, analyse_avant, employees, checkins, checkouts, session_faisabilite, faisabilite, pc,
                   statut, jour_idx, planning_jour, modele, charge, affectes, avertissement, message>>

\* main, lines 1544-1551
besoins_ok == session_besoins # <<>>

equipe_ok == Cardinality({i \in Indices : employees[i].disponible}) >= 5

\* st.session_state.get('faisabilite', {}).get('faisable', True)
faisable == IF session_faisabilite = Absent THEN TRUE ELSE session_faisabilite.faisable

\* main, lines 1554-1577, and generer_planning_optimise, lines 172-193: the
\* problem is built
GenererPlanning ==
    /\ pc = "idle"
    /\ besoins_ok /\ equipe_ok /\ faisable
    /\ modele' = Construire(calculer_besoins_personnel(checkins, checkouts))
    /\ pc' = "construit"
    /\ UNCHANGED <<planning, analyse, analyse_avant, employees, checkins, checkouts, session_besoins, session_faisabilite,
                   faisabilite, statut, jour_idx, planning_jour, charge, affectes, avertissement, message>>

\* generer_planning_optimise, lines 195-199: prob.solve()
Resoudre ==
    /\ pc = "construit"
    /\ statut' = Statut(modele)
    /\ avertissement' = (IF statut' # "Optimal" THEN statut' ELSE "aucun")
    /\ pc' = "extraire"
    /\ jour_idx' = 0
    /\ charge' = ChargeNulle
    /\ affectes' = [i \in Indices |-> [total |-> 0, f1 |-> 0, f2 |-> 0]]
    /\ planning_jour' = LigneVide
    /\ UNCHANGED <<planning, analyse, analyse_avant, employees, checkins, checkouts, session_besoins, session_faisabilite,
                   faisabilite, modele, message>>

\* The values of the variables of day j, given the sums of the days before
LignesSolution(j, ch) ==
    IF statut = "Optimal"
    THEN {ligne \in modele[j] : ContraintesEmploye(ligne, Avance(ch, ligne, j))}
    ELSE LignesDegradees(ch)

\* _extraire_planning, one iteration of "for jour in self.jours_semaine"
ExtraireJour ==
    /\ pc = "extraire"
    /\ jour_idx < Len(jours_semaine)
    /\ \E ligne \in LignesSolution(jour_idx + 1, charge) :
          /\ planning_jour' = ExtraireLigne(ligne)
          /\ charge' = Avance(charge, ligne, jour_idx + 1)
    /\ affectes' = Compter(affectes, planning_jour', jour_idx + 1)
    /\ jour_idx' = jour_idx + 1
    /\ UNCHANGED <<planning, analyse, analyse_avant, employees, checkins, checkouts, session_besoins, session_faisabilite,
                   faisabilite, pc, statut, modele, avertissement, message>>

\* main, lines 1579-1586: "if planning:" holds for the 7-day dict returned
RendrePlanning ==
    /\ pc = "extraire"
    /\ jour_idx = Len(jours_semaine)
    /\ pc' = "rendu"
    /\ message' = "succes"
    /\ UNCHANGED <<planning, analyse, analyse_avant, employees, checkins, checkouts, session_besoins, session_faisabilite,
                   faisabilite, statut, jour_idx, planning_jour, modele, charge, affectes,
                   avertissement>>

Next == CalculerBesoins \/ GenererPlanning \/ Resoudre \/ ExtraireJour \/ RendrePlanning

Spec == Init /\ [][Next]_vars

-----------------------------------------------------------------------------
(* Properties of the schedule returned by generer_planning_optimise.  A    *)
(* row is part of the schedule once extracted; the week is whole when the  *)
(* caller has it (pc = "rendu").                                           *)

Extrait == pc \in {"extraire", "rendu"} /\ jour_idx >= 1

Rendu == pc = "rendu"

JourExtrait == jours_semaine[jour_idx]

\* Number of roster employees that are disponible and satisfy a role and contract test
NbDisponibles(role, nuit) ==
    Cardinality({i \in Indices :
        /\ employees[i].disponible
        /\ employees[i].role = role
        /\ (employees[i].type_contrat = "nuit") = nuit})

\* The weekly maximum as the roster states it
MaxSemaine(e) ==
    IF ~e.disponible \/ e.jours_absence >= 7 THEN 0
    ELSE IF e.jours_semaine - e.jours_absence > 0 THEN e.jours_semaine - e.jours_absence
    ELSE 0

IndisponibleAffecte ==
    \E i \in Indices :
        /\ ~employees[i].disponible
        /\ \E s \in {"matin", "apres_midi", "nuit"} : Present(i, planning_jour[s])

NuitConforme ==
    /\ NbDisponibles("receptionniste", TRUE) >= 2
          => NbRole(planning_jour["nuit"], "receptionniste") = 2
    /\ NbRole(planning_jour["nuit"], "superviseur") = 0
    /\ NbRole(planning_jour["nuit"], "concierge") = 0

JourConforme ==
    \A s \in {"matin", "apres_midi"} :
        /\ Len(planning_jour[s]) <= 4
        /\ NbDisponibles("superviseur", FALSE) >= 1
              => NbRole(planning_jour[s], "superviseur") >= 1

ConciergeConforme ==
    JourExtrait \notin Weekend =>
        NbRole(planning_jour["matin"], "concierge") =
            (IF NbDisponibles("concierge", FALSE) >= 1 THEN 1 ELSE 0)

DeuxShifts ==
    \E i \in Indices :
        Cardinality({s \in {"matin", "apres_midi", "nuit"} : Present(i, planning_jour[s])}) > 1

C8_Original ==
    pc \in {"construit", "extraire", "rendu"} =>
        /\ faisabilite # Absent
        /\ verifier_faisabilite_planning.faisable
        /\ NbDisponibles("receptionniste", TRUE) # 1

\* C9 as stated: the caller is handed the outcome with the schedule, so a solve
\* that ended Infeasible is not reported to the user as a success.
C9_Original == (Rendu /\ statut = "Infeasible") => message # "succes"

\* C27 as stated: whenever verifier_faisabilite_planning returns faisable =
\* True for the roster, the constraints built for it admit an assignment.
C27_Original ==
    (pc \in {"extraire", "rendu"} /\ verifier_faisabilite_planning.faisable)
        => (Realisable(modele) /\ statut = "Optimal")

\* C17: every day the night requirement is min(2, disponible night-contract
\* receptionists) receptionists, 0 supervisors and 0 concierge; with no such
\* receptionist it is 0 and the built problem admits the empty night.
C17_BesoinNuit ==
    /\ session_besoins # <<>> =>
          \A j \in 1..Len(jours_semaine) :
              session_besoins[j].nuit =
                  [receptionists |-> IF NbDisponibles("receptionniste", TRUE) >= 2 THEN 2
                                     ELSE NbDisponibles("receptionniste", TRUE),
                   superviseurs |-> 0,
                   concierge |-> 0]
    /\ (modele # <<>> /\ NbDisponibles("receptionniste", TRUE) = 0) =>
          \A j \in 1..Len(jours_semaine) : \E ligne \in modele[j] : ligne.nuit = {}

\* The problem was built and solved Optimal for a roster without any night
\* receptionist, from a requirement of 0 night receptionists.
C17_Witness ==
    /\ Rendu /\ statut = "Optimal"
    /\ NbDisponibles("receptionniste", TRUE) = 0
    /\ session_besoins[1].nuit.receptionists = 0
    /\ Len(planning_jour["nuit"]) = 0

\* A concierge is listed outside the weekday mornings in the extracted row
ConciergeHorsMatin ==
    \/ NbRole(planning_jour["apres_midi"], "concierge") > 0
    \/ NbRole(planning_jour["nuit"], "concierge") > 0
    \/ /\ JourExtrait \in {"Samedi", "Dimanche"}
       /\ NbRole(planning_jour["matin"], "concierge") > 0

NbJour(equipe) ==
    Cardinality({k \in 1..Len(equipe) :
        \/ equipe[k].role = "superviseur"
        \/ equipe[k].role = "receptionniste" /\ equipe[k].type_contrat # "nuit"})

\* Both day shifts of the extracted row hold at least min(total_personnel,
\* disponible supervisors and non-night receptionists) of them
EffectifAtteint ==
    \A shift \in {"matin", "apres_midi"} :
        NbJour(planning_jour[shift]) >=
            Min(session_besoins[jour_idx][shift].total_personnel,
                NbDisponibles("superviseur", FALSE) + NbDisponibles("receptionniste", FALSE))

NuitEnJournee ==
    \E shift \in {"matin", "apres_midi"} : \E k \in 1..Len(planning_jour[shift]) :
        /\ planning_jour[shift][k].role = "receptionniste"
        /\ planning_jour[shift][k].type_contrat = "nuit"

-----------------------------------------------------------------------------
(* The solve on a roster in which two people have the same prenom *)

\* supervisor Sara Manager and day receptionist Sara Jour, two more
\* supervisors, a concierge, nobody at night
RosterHomonymes ==
    <<Sup("Sara", 0), Employee("Sara", "Jour", "temps_plein", 5, "receptionniste", TRUE, 0),
      Sup("Sam", 0), Sup("Sofia", 0), Concierge("Colette", 0), SupIndisponible>>

InitHomonymes ==
    /\ employees = RosterHomonymes
    /\ checkins = Prevision(0, 0)
    /\ checkouts = Prevision(40, 20)
    /\ session_besoins = <<>>
    /\ session_faisabilite = Absent
    /\ faisabilite = Absent
    /\ pc = "idle"
    /\ statut = "Not Solved"
    /\ jour_idx = 0
    /\ planning_jour = LigneVide
    /\ modele = <<>>
    /\ charge = ChargeNulle
    /\ affectes = [i \in Indices |-> [total |-> 0, f1 |-> 0, f2 |-> 0]]
    /\ avertissement = "aucun"
    /\ message = "aucun"
    /\ planning = <<>>
    /\ analyse = Absent
    /\ analyse_avant = Absent

SpecHomonymes == InitHomonymes /\ [][Next]_vars

\* Entries of the rows extracted so far that name an employee with prenom p
EntreesDe(p) ==
    LET N[i \in 0..Len(employees)] ==
            IF i = 0 THEN 0
            ELSE N[i - 1] + (IF employees[i].prenom = p THEN affectes[i].total ELSE 0)
    IN  N[Len(employees)]

\* C29 as stated: with two employees of the same prenom, the schedule
\* attributes a shift only to the employee assigned to it: the rows hold one
\* entry per decision variable set to 1, none counted for the other employee.
C29_Original ==
    Extrait => \A p \in Prenoms : EntreesDe(p) = charge[p].total

-----------------------------------------------------------------------------
(* verifier_faisabilite_planning on its own: the rosters are built from    *)
(* counts of available people per pool, plus unavailable ones.             *)

MaxPool == 3

PrenomsSup == <<"Sara", "Sam", "Sofia", "Steve">>

PrenomsJour == <<"Rene", "Rose", "Remi", "Ruth">>

PrenomsNuit == <<"Nina", "Noe", "Nour", "Nils">>

Equipe(ns, nj, nn, nc, indisponibles) ==
    [i \in 1..ns |-> Sup(PrenomsSup[i], 0)]
    \o [i \in 1..nj |-> Jour(PrenomsJour[i], "temps_plein")]
    \o [i \in 1..nn |-> Nuit(PrenomsNuit[i], 0)]
    \o [i \in 1..nc |-> Concierge("Colette", 0)]
    \o indisponibles

Indisponibles ==
    {<<>>,
     <<SupIndisponible>>,
     <<ConciergeIndisponible>>,
     <<Employee("Nadia", "Nuit", "nuit", 5, "receptionniste", FALSE, 7),
       Employee("Rita", "Jour", "mi_temps_4j", 4, "receptionniste", FALSE, 7),
       SupIndisponible>>}

RostersFaisabilite ==
    {Equipe(ns, nj, nn, nc, ind) :
        ns \in 0..MaxPool, nj \in 0..MaxPool, nn \in 0..MaxPool, nc \in 0..1,
        ind \in Indisponibles}

InitFaisabilite ==
    /\ employees \in RostersFaisabilite
    /\ checkins = Prevision(0, 0)
    /\ checkouts = Prevision(0, 0)
    /\ session_besoins = <<>>
    /\ session_faisabilite = Absent
    /\ faisabilite = Absent
    /\ pc = "idle"
    /\ statut = "Not Solved"
    /\ jour_idx = 0
    /\ planning_jour = LigneVide
    /\ modele = <<>>
    /\ charge = ChargeNulle
    /\ affectes = [i \in Indices |-> [total |-> 0, f1 |-> 0, f2 |-> 0]]
    /\ avertissement = "aucun"
    /\ message = "aucun"
    /\ planning = <<>>
    /\ analyse = Absent
    /\ analyse_avant = Absent

\* A call of verifier_faisabilite_planning; the caller keeps the value returned
VerifierFaisabilite ==
    /\ pc = "idle"
    /\ faisabilite = Absent
    /\ faisabilite' = verifier_faisabilite_planning
    /\ UNCHANGED <<planning, analyse, analyse_avant, employees, checkins, checkouts, session_besoins, session_faisabilite, pc,
                   statut, jour_idx, planning_jour, modele, charge, affectes, avertissement,
                   message>>

NextFaisabilite == VerifierFaisabilite

SpecFaisabilite == InitFaisabilite /\ [][NextFaisabilite]_vars

\* An entry of a list of the report
Contient(liste, entree) == \E k \in 1..Len(liste) : liste[k] = entree

\* The blocking conditions, counted on the roster
Bloquant ==
    \/ NbDisponibles("superviseur", FALSE) = 0
    \/ NbDisponibles("receptionniste", TRUE) < 2
    \/ NbDisponibles("superviseur", FALSE) + NbDisponibles("receptionniste", FALSE) < 3

\* C10: faisable = False exactly when no supervisor, fewer than two night
\* receptionists or fewer than three day-capable staff are disponible; a single
\* supervisor or no concierge only adds a recommandation.
C10_Faisabilite ==
    faisabilite # Absent =>
        /\ faisabilite.faisable = ~Bloquant
        /\ NbDisponibles("superviseur", FALSE) = 1
              => /\ Contient(faisabilite.recommandations, "un_seul_superviseur")
                 /\ ~Contient(faisabilite.problemes, "un_seul_superviseur")
        /\ NbDisponibles("concierge", FALSE) = 0
              => /\ Contient(faisabilite.recommandations, "concierge_indisponible")
                 /\ ~Contient(faisabilite.problemes, "concierge_indisponible")

\* The check ran on a roster with one supervisor and no concierge available
\* and found it feasible, with both recommandations.
C10_Witness ==
    /\ faisabilite # Absent
    /\ faisabilite.faisable
    /\ NbDisponibles("superviseur", FALSE) = 1
    /\ NbDisponibles("concierge", FALSE) = 0
    /\ Len(faisabilite.recommandations) = 2

-----------------------------------------------------------------------------
(* analyser_planning on a week that the solver did not necessarily         *)
(* produce: a week that satisfies every constraint of _ajouter_contraintes *)
(* in which, on some days, the team of one shift is replaced.              *)

\* three supervisors, a day receptionist on a 3-day contract absent 2 days, three
\* night receptionists, and a concierge who is disponible or not
EquipeValidation(concierge) ==
    <<Sup("Sara", 0), Sup("Sam", 0), Sup("Sofia", 1),
      Employee("Rene", "Jour", "mi_temps_3j", 3, "receptionniste", TRUE, 2),
      Nuit("Nina", 0), Nuit("Noe", 0), Nuit("Nour", 1), concierge>>

\* The week before it is edited: prenoms per shift
SemaineConforme ==
    LET matin == <<"Sara", "Sara", "Sara", "Sara", "Sara", "Sofia", "Sofia">>
        apres_midi == <<"Sam", "Sam", "Sam", "Sofia", "Sofia", "Sam", "Sam">>
        repos_nuit == <<"Nina", "Nina", "Noe", "Noe", "Nour", "Nour", "Nour">>
    IN  [j \in 1..Len(jours_semaine) |->
            [matin |-> {matin[j]} \cup (IF jours_semaine[j] \notin Weekend
                                         THEN {employees[c].prenom : c \in concierges}
                                         ELSE {}),
             apres_midi |-> {apres_midi[j]},
             nuit |-> {"Nina", "Noe", "Nour"} \ {repos_nuit[j]}]]

\* The days on which a week is edited
JoursModifies == {{1}, {6}, {1, 2}, 1..Len(jours_semaine)}

\* The week with team T on one shift of the days D
Semaine(D, shift, T) ==
    [j \in 1..Len(jours_semaine) |->
        ExtraireLigne(IF j \in D THEN [SemaineConforme[j] EXCEPT ![shift] = T]
                      ELSE SemaineConforme[j])]

\* The roster in which the day receptionist has the prenom of a supervisor
EquipeHomonymes ==
    <<Sup("Sara", 0), Sup("Sam", 0), Sup("Sofia", 1),
      Employee("Sara", "Jour", "mi_temps_3j", 3, "receptionniste", TRUE, 2),
      Nuit("Nina", 0), Nuit("Noe", 0), Nuit("Nour", 1), Concierge("Colette", 0)>>

\* The employees whose prenom is that of someone earlier in the roster
Homonymes == {i \in Indices : \E k \in 1..(i - 1) : employees[k].prenom = employees[i].prenom}

\* The week pl in which none of the employees of a set is listed
SansEmployes(pl, retires) ==
    [j \in 1..Len(jours_semaine) |->
        [shift \in {"matin", "apres_midi", "nuit"} |->
            SelectSeq(pl[j][shift], LAMBDA f : \A i \in retires : f # Fiche(employees[i]))]]

InitValidation ==
    /\ employees \in {EquipeValidation(Concierge("Colette", 0)),
                       EquipeValidation(ConciergeIndisponible),
                       EquipeHomonymes}
    /\ checkins = Prevision(0, 0)
    /\ checkouts = Prevision(0, 0)
    /\ session_besoins = <<>>
    /\ session_faisabilite = Absent
    /\ faisabilite = Absent
    /\ pc = "idle"
    /\ statut = "Not Solved"
    /\ jour_idx = 0
    /\ planning_jour = LigneVide
    /\ modele = <<>>
    /\ charge = ChargeNulle
    /\ affectes = [i \in Indices |-> [total |-> 0, f1 |-> 0, f2 |-> 0]]
    /\ avertissement = "aucun"
    /\ message = "aucun"
    /\ \E D \in JoursModifies, shift \in {"matin", "apres_midi", "nuit"}, T \in SUBSET Prenoms :
          planning = SansEmployes(Semaine(D, shift, T), Homonymes)
    /\ analyse = Absent
    /\ analyse_avant = Absent

\* Mutant: analyser_planning empties the teams it has counted
AnalyserEnVidant ==
    /\ planning # <<>>
    /\ analyse_avant = Absent
    /\ analyse' = analyser_planning(planning)
    /\ analyse_avant' = analyse
    /\ planning' = [j \in 1..Len(jours_semaine) |-> LigneVide]
    /\ UNCHANGED <<employees, checkins, checkouts, session_besoins, session_faisabilite,
                   faisabilite, pc, statut, jour_idx, planning_jour, modele, charge, affectes,
                   avertissement, message>>

\* A call of analyser_planning (main, lines 1762 and 1858, one per tab shown);
\* the caller keeps the value returned and the one of the call before
Analyser ==
    /\ planning # <<>>
    /\ analyse_avant = Absent
    /\ analyse' = analyser_planning(planning)
    /\ analyse_avant' = analyse
    /\ UNCHANGED <<planning, employees, checkins, checkouts, session_besoins, session_faisabilite,
                   faisabilite, pc, statut, jour_idx, planning_jour, modele, charge, affectes,
                   avertissement, message>>

NextValidation == Analyser

SpecValidation == InitValidation /\ [][NextValidation]_vars

\* The violations returned hold one of the given kinds at (jour j, shift)
Signale(kinds, j, shift) ==
    \E k \in 1..Len(analyse.violations_contraintes) :
        LET v == analyse.violations_contraintes[k]
        IN  /\ v.kind \in kinds
            /\ v.kind # "contrat"
            /\ v.jour = jours_semaine[j]
            /\ v.shift = shift

\* The violations returned hold a contract violation of employee i
SignaleContrat(i) ==
    \E k \in 1..Len(analyse.violations_contraintes) :
        LET v == analyse.violations_contraintes[k]
        IN  v.kind = "contrat" /\ v.prenom = employees[i].prenom

JoursOuvres == {j \in 1..Len(jours_semaine) : jours_semaine[j] \notin Weekend}

\* C11 as stated: with zero available concierges the requirement still has
\* concierge = 1 on weekday mornings, and the validator run on a week with no
\* concierge on any weekday morning reports no concierge violation.
C11_Original ==
    (/\ analyse # Absent
     /\ NbDisponibles("concierge", FALSE) = 0
     /\ \A j \in JoursOuvres : NbRole(planning[j]["matin"], "concierge") = 0)
    => /\ \A j \in JoursOuvres :
              calculer_besoins_personnel(checkins, checkouts)[j].matin.concierge = 1
       /\ \A j \in JoursOuvres :
              ~Signale({"concierge_obligatoire", "concierge_apres_midi", "concierge_weekend"},
                       j, "matin")

\* C12 as stated: an employee on a 3-day contract with 2 absence days who is
\* assigned shifts on 2 or more days gets a contract-compliance violation.
C12_Original ==
    analyse # Absent =>
        \A i \in Indices :
            (/\ employees[i].type_contrat = "mi_temps_3j"
             /\ employees[i].jours_absence = 2
             /\ employees[i].disponible
             /\ Cardinality({j \in 1..Len(jours_semaine) :
                    \E shift \in {"matin", "apres_midi", "nuit"} :
                        Present(i, planning[j][shift])}) >= 2)
            => /\ SignaleContrat(i)
               /\ ~analyse.heures_par_employe[Cle(employees[i])].respect_contrat

\* The members of a team who are in a set of roster employees
NbDans(equipe, pool) ==
    Cardinality({k \in 1..Len(equipe) : \E i \in pool : equipe[k] = Fiche(employees[i])})

\* The night of day j breaches the night constraint: someone other than an
\* available night receptionist works it, or the headcount is not the required one
BrecheNuit(j) ==
    \/ NbDans(planning[j]["nuit"], receptionnistes_nuit) # Len(planning[j]["nuit"])
    \/ Len(planning[j]["nuit"]) # Min(nb_night_receptionists_required,
                                      NbDisponibles("receptionniste", TRUE))

\* A day shift without a supervisor while one is available
BrecheSuperviseur(j, shift) ==
    /\ NbDisponibles("superviseur", FALSE) >= 1
    /\ NbRole(planning[j][shift], "superviseur") = 0

\* A day shift with fewer supervisors and day receptionists than
\* min(total_personnel, available day pool)
BrecheEffectif(j, shift) ==
    NbDans(planning[j][shift], superviseurs \cup receptionnistes_jour)
        < Min(calculer_besoins_personnel(checkins, checkouts)[j][shift].total_personnel,
              NbDisponibles("superviseur", FALSE) + NbDisponibles("receptionniste", FALSE))

\* A concierge outside weekday mornings, or not exactly one on a weekday
\* morning while one is available
BrecheConcierge(j, shift) ==
    IF shift = "matin" /\ j \in JoursOuvres /\ NbDisponibles("concierge", FALSE) >= 1
    THEN NbRole(planning[j][shift], "concierge") # 1
    ELSE NbRole(planning[j][shift], "concierge") > 0

\* Employee i has more shifts than jours_travail_max_semaine
BrecheCap(i) ==
    Cardinality({<<j, shift>> \in (1..Len(jours_semaine)) \X {"matin", "apres_midi", "nuit"} :
                    Present(i, planning[j][shift])}) > MaxSemaine(employees[i])

\* C13 as stated: every breach of constraints 5-9 or of the weekly cap has
\* its violation record.
C13_Original ==
    analyse # Absent =>
        /\ \A j \in 1..Len(jours_semaine) :
              /\ BrecheNuit(j) =>
                    Signale({"nuit_effectif", "nuit_superviseur", "nuit_concierge"}, j, "nuit")
              /\ BrecheConcierge(j, "nuit") => Signale({"nuit_concierge"}, j, "nuit")
              /\ \A shift \in {"matin", "apres_midi"} :
                    /\ BrecheSuperviseur(j, shift) => Signale({"superviseur"}, j, shift)
                    /\ BrecheEffectif(j, shift) => Signale({"minimum", "superviseur"}, j, shift)
                    /\ BrecheConcierge(j, shift) =>
                          Signale({"concierge_obligatoire", "concierge_apres_midi",
                                   "concierge_weekend"}, j, shift)
                    /\ Len(planning[j][shift]) > max_receptionists_per_shift =>
                          Signale({"maximum"}, j, shift)
        /\ \A i \in Indices : BrecheCap(i) => SignaleContrat(i)

\* The (day, shift) pairs on which employee i is listed
ShiftsDe(i) ==
    {<<j, shift>> \in (1..Len(jours_semaine)) \X {"matin", "apres_midi", "nuit"} :
        Present(i, planning[j][shift])}

\* C26 as stated: heures is 8 times the shifts the employee is assigned,
\* jours_travailles the days with a shift, respect_contrat is
\* jours_travailles <= jours_semaine, total_heures_semaine is 8 times
\* total_shifts_semaine, and nombre_employes_actifs counts the roster employees
\* with a shift.
C26_Original ==
    analyse # Absent =>
        /\ \A i \in Indices :
              LET h == analyse.heures_par_employe[Cle(employees[i])]
                  jours == Cardinality({js[1] : js \in ShiftsDe(i)})
              IN  /\ h.heures = 8 * Cardinality(ShiftsDe(i))
                  /\ h.jours_travailles = jours
                  /\ h.respect_contrat = (jours <= employees[i].jours_semaine)
        /\ analyse.statistiques_globales.total_heures_semaine
              = 8 * analyse.statistiques_globales.total_shifts_semaine
        /\ analyse.statistiques_globales.nombre_employes_actifs
              = Cardinality({i \in Indices : ShiftsDe(i) # {}})

\* The variables that a week sets to 1 on day j: per shift, the prenoms listed
LigneDe(pl, j) ==
    [shift \in {"matin", "apres_midi", "nuit"} |->
        {pl[j][shift][k].prenom : k \in 1..Len(pl[j][shift])}]

\* The sums of lines 267-278 over the whole week pl
ChargeDe(pl) ==
    LET C[j \in 0..Len(jours_semaine)] ==
            IF j = 0 THEN ChargeNulle ELSE Avance(C[j - 1], LigneDe(pl, j), j)
    IN  C[Len(jours_semaine)]

\* The week pl satisfies every constraint that _ajouter_contraintes builds for
\* the roster and the forecast
SatisfaitContraintes(pl) ==
    LET besoins == calculer_besoins_personnel(checkins, checkouts)
    IN  \A j \in 1..Len(jours_semaine) :
            /\ \A shift \in {"matin", "apres_midi", "nuit"} :
                  /\ LigneDe(pl, j)[shift] \subseteq Prenoms
                  /\ ContraintesShift(jours_semaine[j], shift, besoins[j], LigneDe(pl, j)[shift])
            /\ ContraintesEmploye(LigneDe(pl, j), ChargeDe(pl))

\* C28 as stated: a week that satisfies all constraints built by
\* _ajouter_contraintes gets an empty violation list from _verifier_violations
\* on the same roster.
C28_Original ==
    (analyse # Absent /\ SatisfaitContraintes(planning))
        => analyse.violations_contraintes = <<>>

-----------------------------------------------------------------------------
(* The four components called on one roster, in any order: the            *)
(* requirements, the feasibility check, the solve and the analysis of a    *)
(* week the caller holds.                                                  *)

InitAppels ==
    /\ employees \in {<<Sup("Sara", 0), Sup("Sam", 0), Sup("Sofia", 1), Jour("Rene", "mi_temps_3j"),
                         Concierge("Colette", 0), SupIndisponible>>,
                       <<Nuit("Nina", 0), Sup("Sara", 0), Sup("Sam", 0), Sup("Sofia", 0),
                         Nuit("Noe", 0), ConciergeIndisponible>>}
    /\ checkins = Prevision(0, 0)
    /\ checkouts = Prevision(40, 20)
    /\ session_besoins = <<>>
    /\ session_faisabilite = Absent
    /\ faisabilite = Absent
    /\ pc = "idle"
    /\ statut = "Not Solved"
    /\ jour_idx = 0
    /\ planning_jour = LigneVide
    /\ modele = <<>>
    /\ charge = ChargeNulle
    /\ affectes = [i \in Indices |-> [total |-> 0, f1 |-> 0, f2 |-> 0]]
    /\ avertissement = "aucun"
    /\ message = "aucun"
    /\ planning = Semaine({}, "matin", {})
    /\ analyse = Absent
    /\ analyse_avant = Absent

NextAppels ==
    \/ CalculerBesoins
    \/ VerifierFaisabilite
    \/ GenererPlanning
    \/ Resoudre
    \/ ExtraireJour
    \/ RendrePlanning
    \/ Analyser

SpecAppels == InitAppels /\ [][NextAppels]_vars

\* C22: calculer_besoins_personnel, verifier_faisabilite_planning,
\* generer_planning_optimise and analyser_planning leave the list of
\* employees and every field of every employee as they were, and
\* analyser_planning leaves the schedule it is given as it was.
C22_Cadre ==
    [][/\ employees' = employees
       /\ (analyse' # analyse \/ analyse_avant' # analyse_avant) => planning' = planning]_vars

\* All four components were called on the roster: requirements computed, the
\* feasibility report returned, a week solved and returned, the held week
\* analysed twice.
C22_Witness ==
    /\ session_besoins # <<>>
    /\ faisabilite # Absent
    /\ Rendu
    /\ analyse_avant # Absent
    /\ planning = Semaine({}, "matin", {})

-----------------------------------------------------------------------------
(* calculer_besoins_personnel on its own: the same count of check-ins on   *)
(* every day and the same count of check-outs on every day, or a forecast  *)
(* that is not a count for each of the 7 days.                             *)

MaxTranches == 6

\* counts around the multiples of clients_per_receptionist
Comptes ==
    {n \in {clients_per_receptionist * k + d : k \in 0..MaxTranches, d \in {-1, 0, 1}} : n >= 0}

\* forecasts with a negative count on the weekdays, or without the key 'Lundi'
PrevisionsMalformees ==
    {Prevision(-1, 0), Prevision(-60, 0),
     [jour \in {jours_semaine[j] : j \in 2..Len(jours_semaine)} |-> 0]}

\* a forecast holds a count >= 0 for each of the 7 days
BienFormee(d) ==
    /\ DOMAIN d = {jours_semaine[j] : j \in 1..Len(jours_semaine)}
    /\ \A jour \in DOMAIN d : d[jour] >= 0

RostersBesoins ==
    {<<>>, <<Sup("Sara", 0), Nuit("Nina", 0), Nuit("Noe", 0), SupIndisponible>>}

InitBesoins ==
    /\ employees \in RostersBesoins
    /\ \/ \E a \in Comptes, b \in Comptes :
             checkins = Prevision(a, a) /\ checkouts = Prevision(b, b)
       \/ \E m \in PrevisionsMalformees, a \in {0, 2 * clients_per_receptionist, 3 * clients_per_receptionist} :
             \/ checkins = m /\ checkouts = Prevision(a, a)
             \/ checkins = Prevision(a, a) /\ checkouts = m
    /\ session_besoins = <<>>
    /\ session_faisabilite = Absent
    /\ faisabilite = Absent
    /\ pc = "idle"
    /\ statut = "Not Solved"
    /\ jour_idx = 0
    /\ planning_jour = LigneVide
    /\ modele = <<>>
    /\ charge = ChargeNulle
    /\ affectes = [i \in Indices |-> [total |-> 0, f1 |-> 0, f2 |-> 0]]
    /\ avertissement = "aucun"
    /\ message = "aucun"
    /\ planning = <<>>
    /\ analyse = Absent
    /\ analyse_avant = Absent

\* A call of calculer_besoins_personnel; the caller keeps the value returned
AppelerCalculerBesoins ==
    /\ session_besoins = <<>>
    /\ session_besoins' = calculer_besoins_personnel(checkins, checkouts)
    /\ UNCHANGED <<planning, analyse, analyse_avant, employees, checkins, checkouts, session_faisabilite,
                   faisabilite, pc, statut, jour_idx, planning_jour, modele, charge, affectes,
                   avertissement, message>>

NextBesoins == AppelerCalculerBesoins

SpecBesoins == InitBesoins /\ [][NextBesoins]_vars

\* C14 as stated: a forecast that lacks a day or holds a negative count, and
\* an empty roster, are rejected before any requirement is computed.
C14_Original ==
    (~BienFormee(checkins) \/ ~BienFormee(checkouts) \/ Len(employees) = 0)
        => session_besoins = <<>>

\* ceil(n / 50), stated without the division of the code
Plafond50(n) == CHOOSE q \in 0..n : 50 * q >= n /\ (q = 0 \/ 50 * (q - 1) < n)

\* the cap of C15: 4 on Samedi and Dimanche, 3 otherwise
Cap(jour) == IF jour \in {"Samedi", "Dimanche"} THEN 4 ELSE 3

\* the total of C15 for a shift with n arrivals or departures on a day of activity act
TotalAttendu(n, act, jour) ==
    LET t == Min(Cap(jour), Max(1, Plafond50(n)))
    IN  IF act < 100 THEN Max(1, t - 1) ELSE t

\* C15: for every day and every pair of non-negative counts, matin and
\* apres_midi total_personnel are relief(min(cap, max(1, ceil(count / 50)))).
C15_Totaux ==
    (session_besoins # <<>> /\ BienFormee(checkins) /\ BienFormee(checkouts)) =>
        \A j \in 1..Len(jours_semaine) :
            LET jour == jours_semaine[j]
                act == checkins[jour] + checkouts[jour]
            IN  /\ session_besoins[j].matin.total_personnel
                      = TotalAttendu(checkouts[jour], act, jour)
                /\ session_besoins[j].apres_midi.total_personnel
                      = TotalAttendu(checkins[jour], act, jour)

\* Requirements were computed for 151 check-outs and 49 check-ins a day: the
\* weekday morning is capped at 3, the weekend morning is 4, the afternoon 1.
C15_Witness ==
    /\ session_besoins # <<>>
    /\ checkouts = Prevision(151, 151) /\ checkins = Prevision(49, 49)
    /\ session_besoins[1].matin.total_personnel = 3
    /\ session_besoins[6].matin.total_personnel = 4
    /\ session_besoins[1].apres_midi.total_personnel = 1

\* C16: every total_personnel lies between 1 and the cap of its day; zero load
\* on a weekday gives 1 and 1, 300 and 300 on a Saturday give 4 and 4.
C16_Bornes ==
    (session_besoins # <<>> /\ BienFormee(checkins) /\ BienFormee(checkouts)) =>
        /\ \A j \in 1..Len(jours_semaine) : \A shift \in {"matin", "apres_midi"} :
              /\ session_besoins[j][shift].total_personnel >= 1
              /\ session_besoins[j][shift].total_personnel <= Cap(jours_semaine[j])
        /\ (checkins["Lundi"] = 0 /\ checkouts["Lundi"] = 0) =>
              /\ session_besoins[1].matin.total_personnel = 1
              /\ session_besoins[1].apres_midi.total_personnel = 1
        /\ (checkins["Samedi"] = 300 /\ checkouts["Samedi"] = 300) =>
              /\ session_besoins[6].matin.total_personnel = 4
              /\ session_besoins[6].apres_midi.total_personnel = 4

\* Requirements were computed for 300 check-ins and 300 check-outs a day.
C16_Witness ==
    /\ session_besoins # <<>>
    /\ checkins = Prevision(300, 300) /\ checkouts = Prevision(300, 300)
    /\ session_besoins[6].matin.total_personnel = 4
    /\ session_besoins[1].matin.total_personnel = 3

\* The requirements of a shift are met by one available supervisor alone: the
\* supervisor floor (lines 232-234) and the headcount (lines 236-245)
UnSuperviseurSuffit(nb_besoin) ==
    \A i \in superviseurs :
        /\ ContrainteSuperviseur({employees[i].prenom})
        /\ ContrainteEffectif(nb_besoin, {employees[i].prenom})

-----------------------------------------------------------------------------
(* The roster editor of main: employees are added through the form and     *)
(* their availability is edited; nothing else writes a field of an         *)
(* Employee.                                                               *)

\* prenom and nom typed in the form for the k-th employee added; the roster
\* grows to that many employees
NomsSaisis == <<<<"Sara", "Manager">>, <<"Rene", "Jour">>>>

\* the selectboxes of the form (lines 1132-1137)
RolesContrats ==
    {<<"superviseur", "temps_plein">>, <<"concierge", "temps_plein">>}
    \cup {<<"receptionniste", c>> : c \in {"temps_plein", "mi_temps_4j", "mi_temps_3j", "nuit"}}

\* jours_semaine passed to the constructor: 0 by the form (line 1190), the
\* contractual days by initialiser_equipe_conforme, anything by another caller
JoursPasses == {0, 5, 7}

InitEquipe ==
    /\ employees = <<>>
    /\ checkins = Prevision(0, 0)
    /\ checkouts = Prevision(0, 0)
    /\ session_besoins = <<>>
    /\ session_faisabilite = Absent
    /\ faisabilite = Absent
    /\ pc = "idle"
    /\ statut = "Not Solved"
    /\ jour_idx = 0
    /\ planning_jour = LigneVide
    /\ modele = <<>>
    /\ charge = ChargeNulle
    /\ affectes = [i \in Indices |-> [total |-> 0, f1 |-> 0, f2 |-> 0]]
    /\ avertissement = "aucun"
    /\ message = "aucun"
    /\ planning = <<>>
    /\ analyse = Absent
    /\ analyse_avant = Absent

\* main, lines 1187-1193: the button "Ajouter cet Employé"
AjouterEmploye ==
    /\ Len(employees) < Len(NomsSaisis)
    /\ \E rc \in RolesContrats, jours_passe \in JoursPasses :
          LET saisie == NomsSaisis[Len(employees) + 1]
          IN  employees' = Append(employees,
                  Employee(saisie[1], saisie[2], rc[2], jours_passe, rc[1], TRUE, 0))
    /\ UNCHANGED <<planning, analyse, analyse_avant, checkins, checkouts, session_besoins,
                   session_faisabilite, faisabilite, pc, statut, jour_idx, planning_jour, modele,
                   charge, affectes, avertissement, message>>

\* main, lines 1048-1073: "Mettre à jour le statut" of employee i with the
\* radio on statut and the slider on n, and "Remettre à 100%"
MettreAJourStatut(i, nouveau_statut, n) ==
    /\ employees' =
          [employees EXCEPT ![i] =
              CASE nouveau_statut = "Disponible" ->
                       [@ EXCEPT !.disponible = TRUE, !.jours_absence = 0]
                [] nouveau_statut = "Partiellement disponible" ->
                       [@ EXCEPT !.disponible = TRUE, !.jours_absence = n]
                [] OTHER ->
                       [@ EXCEPT !.disponible = FALSE, !.jours_absence = 7]]
    /\ UNCHANGED <<planning, analyse, analyse_avant, checkins, checkouts, session_besoins,
                   session_faisabilite, faisabilite, pc, statut, jour_idx, planning_jour, modele,
                   charge, affectes, avertissement, message>>

\* the slider of line 1016: 1..min(6, jours_semaine)
ModifierStatut ==
    \E i \in Indices :
        \/ MettreAJourStatut(i, "Disponible", 0)
        \/ \E n \in 1..Min(6, employees[i].jours_semaine) :
               MettreAJourStatut(i, "Partiellement disponible", n)
        \/ MettreAJourStatut(i, "Indisponible", 7)

\* main, lines 1083-1088: the button "Tous disponibles" leaves jours_absence alone
TousDisponibles ==
    /\ employees' = [i \in Indices |-> [employees[i] EXCEPT !.disponible = TRUE]]
    /\ UNCHANGED <<planning, analyse, analyse_avant, checkins, checkouts, session_besoins,
                   session_faisabilite, faisabilite, pc, statut, jour_idx, planning_jour, modele,
                   charge, affectes, avertissement, message>>

\* main, lines 1092-1101: the button "Weekend équipe réduite"
WeekendEquipeReduite ==
    /\ employees' =
          [i \in Indices |->
              [employees[i] EXCEPT !.disponible =
                  \/ employees[i].role = "superviseur"
                  \/ employees[i].role = "receptionniste" /\ employees[i].type_contrat = "nuit"]]
    /\ UNCHANGED <<planning, analyse, analyse_avant, checkins, checkouts, session_besoins,
                   session_faisabilite, faisabilite, pc, statut, jour_idx, planning_jour, modele,
                   charge, affectes, avertissement, message>>

NextEquipe == AjouterEmploye \/ ModifierStatut \/ TousDisponibles \/ WeekendEquipeReduite

SpecEquipe == InitEquipe /\ [][NextEquipe]_vars

\* C23: jours_travail_max_semaine is 0 when disponible is False or
\* jours_absence >= 7, max(0, jours_semaine - jours_absence) otherwise, and
\* always lies between 0 and jours_semaine.
C23_JoursMax ==
    \A i \in Indices :
        LET e == employees[i]
            r == jours_travail_max_semaine(e)
        IN  /\ (~e.disponible \/ e.jours_absence >= 7) => r = 0
            /\ (e.disponible /\ e.jours_absence < 7) =>
                  r = (IF e.jours_semaine - e.jours_absence >= 0
                       THEN e.jours_semaine - e.jours_absence ELSE 0)
            /\ r >= 0 /\ r <= e.jours_semaine

\* The roster holds someone on a 3-day contract with 2 absence days, who can
\* work 1 day, and someone disponible with 7 absence days, who can work none.
C23_Witness ==
    /\ \E i \in Indices :
          /\ employees[i].type_contrat = "mi_temps_3j"
          /\ employees[i].disponible /\ employees[i].jours_absence = 2
          /\ jours_travail_max_semaine(employees[i]) = 1
    /\ \E i \in Indices :
          /\ employees[i].disponible /\ employees[i].jours_absence = 7
          /\ jours_travail_max_semaine(employees[i]) = 0

\* the contractual days of the four contracts
JoursContrat(type_contrat) ==
    CASE type_contrat = "temps_plein" -> 5
      [] type_contrat = "mi_temps_4j" -> 4
      [] type_contrat = "mi_temps_3j" -> 3
      [] type_contrat = "nuit" -> 5

\* C24: at every moment after construction, every employee of the roster has
\* the jours_semaine of its type_contrat, whatever value the constructor got.
C24_JoursSemaine ==
    \A i \in Indices : employees[i].jours_semaine = JoursContrat(employees[i].type_contrat)

\* A 3-day and a 4-day receptionist were added, and the status of the first
\* was edited since.
C24_Witness ==
    /\ Len(employees) = 2
    /\ employees[1].type_contrat = "mi_temps_3j" /\ employees[1].jours_semaine = 3
    /\ employees[2].type_contrat = "mi_temps_4j" /\ employees[2].jours_semaine = 4
    /\ ~employees[1].disponible

-----------------------------------------------------------------------------
(* verifier_faisabilite_planning on two rosters: the one it reported on,   *)
(* and the same with absence days taken off.                               *)

\* a supervisor absent 2 days, a 3-day receptionist absent 3 days, a night
\* receptionist absent the 7 days and disponible or not, a concierge absent 1
\* day and disponible or not
RostersMonotonie ==
    {<<Sup("Sara", 2),
       Employee("Rene", "Jour", "mi_temps_3j", 3, "receptionniste", TRUE, 3),
       Employee("Nina", "Nuit", "nuit", 5, "receptionniste", dn, 7),
       Employee("Colette", "Clef", "temps_plein", 5, "concierge", dc, 1)>> :
        dn \in BOOLEAN, dc \in BOOLEAN}

InitMonotonie ==
    /\ employees \in RostersMonotonie
    /\ checkins = Prevision(0, 0)
    /\ checkouts = Prevision(0, 0)
    /\ session_besoins = <<>>
    /\ session_faisabilite = Absent
    /\ faisabilite = Absent
    /\ pc = "idle"
    /\ statut = "Not Solved"
    /\ jour_idx = 0
    /\ planning_jour = LigneVide
    /\ modele = <<>>
    /\ charge = ChargeNulle
    /\ affectes = [i \in Indices |-> [total |-> 0, f1 |-> 0, f2 |-> 0]]
    /\ avertissement = "aucun"
    /\ message = "aucun"
    /\ planning = <<>>
    /\ analyse = Absent
    /\ analyse_avant = Absent

\* The roster of the second call: jours_absence of one employee is lower,
\* every other field of every employee is as it was for the first call
ReduireAbsence ==
    /\ faisabilite # Absent
    /\ \E i \in Indices : \E n \in 0..(employees[i].jours_absence - 1) :
          employees' = [employees EXCEPT ![i].jours_absence = n]
    /\ UNCHANGED <<planning, analyse, analyse_avant, checkins, checkouts, session_besoins,
                   session_faisabilite, faisabilite, pc, statut, jour_idx, planning_jour, modele,
                   charge, affectes, avertissement, message>>

NextMonotonie == VerifierFaisabilite \/ ReduireAbsence

SpecMonotonie == InitMonotonie /\ [][NextMonotonie]_vars

\* C25: when jours_absence of an employee is lowered and nothing else
\* changes, no pool count reported by verifier_faisabilite_planning goes down.
C25_Monotonie ==
    faisabilite # Absent =>
        LET avant == faisabilite.stats
            apres == verifier_faisabilite_planning.stats
        IN  /\ apres.superviseurs >= avant.superviseurs
            /\ apres.receptionnistes_jour >= avant.receptionnistes_jour
            /\ apres.receptionnistes_nuit >= avant.receptionnistes_nuit
            /\ apres.concierges >= avant.concierges
            /\ apres.total_disponibles >= avant.total_disponibles

\* The report counted the 4 employees, and since then the supervisor and the
\* night receptionist have fewer absence days than the 2 and the 7 they had.
C25_Witness ==
    /\ faisabilite # Absent
    /\ faisabilite.stats.total_disponibles = 4
    /\ employees[1].jours_absence = 0
    /\ employees[3].jours_absence = 3

====
